---- MODULE Spec2Model ----
(***************************************************************************)
(* Model of the subpar compiler's command line interface                   *)
(* (src/compiler/cli.py): bool_from_string, make_command_line_parser,      *)
(* parse_stub and main.                                                    *)
(*                                                                         *)
(* Python strings that the code inspects (stub lines, interpreter          *)
(* references) are sequences of one-character strings.  Strings the code   *)
(* only passes along (file names, import roots) are TLA+ strings.          *)
(* An optional value is <<>> (None) or <<v>>.                              *)
(***************************************************************************)
EXTENDS Integers, Sequences, FiniteSets

VARIABLES
    pc,          \* position of main: "idle" between invocations, then the step reached
    argv,        \* the command line of the current invocation
    stub,        \* lines of the file named by --stub_file, as io.open's iteration yields them
    args,        \* the argparse namespace, <<>> before parse_args returns
    interpreter, \* main's local variable `interpreter`, <<>> while unbound
    par,         \* the keyword arguments PythonArchive was constructed with, <<>> before
    raised,      \* message of the exception that left main, "" if none
    events,      \* the calls main has made in this invocation, in order
    calls        \* invocations of main so far in this process: 0, 1, or 2 for "several"

vars == <<pc, argv, stub, args, interpreter, par, raised, events, calls>>

None == <<>>
Some(v) == <<v>>

\* ---------------------------------------------------------------- bounds
\* longest enumerated interpreter reference
MaxLen == 2
\* most lines in an enumerated stub file
MaxLines == 2
\* most --import_root options on one command line
MaxRoots == 2

\* ---------------------------------------------------------------- literals
PYTHON_BINARY_PREFIX == <<"P", "Y", "T", "H", "O", "N", "_", "B", "I", "N", "A", "R", "Y", " ", "=", " ", "'">>
PY3WRAPPER == <<"b", "a", "z", "e", "l", "_", "t", "o", "o", "l", "s", "/", "t", "o", "o", "l", "s", "/", "p", "y", "t", "h", "o", "n", "/", "p", "y", "3", "w", "r", "a", "p", "p", "e", "r", ".", "s", "h">>
PY2WRAPPER == <<"b", "a", "z", "e", "l", "_", "t", "o", "o", "l", "s", "/", "t", "o", "o", "l", "s", "/", "p", "y", "t", "h", "o", "n", "/", "p", "y", "2", "w", "r", "a", "p", "p", "e", "r", ".", "s", "h">>
ENV_PREFIX == <<"/", "u", "s", "r", "/", "b", "i", "n", "/", "e", "n", "v", " ">>
ENV_PYTHON3 == <<"/", "u", "s", "r", "/", "b", "i", "n", "/", "e", "n", "v", " ", "p", "y", "t", "h", "o", "n", "3">>
ENV_PYTHON2 == <<"/", "u", "s", "r", "/", "b", "i", "n", "/", "e", "n", "v", " ", "p", "y", "t", "h", "o", "n", "2">>

ErrParseStub == "Failed to parse stub file"
ErrLabel == "Python interpreter must not be a label"
ErrWorkspace == "par files require a Python runtime that is installed on the system"
ErrArgparse == "SystemExit"
NoError == ""

DEFAULT_TIMESTAMP == 315532800

\* ---------------------------------------------------------------- str helpers
\* str.startswith
startswith(s, prefix) ==
    /\ Len(s) >= Len(prefix)
    /\ SubSeq(s, 1, Len(prefix)) = prefix

\* the `in` operator on a one-character needle
contains(s, ch) == \E k \in 1..Len(s) : s[k] = ch

\* truth value of an optional str: None and '' are false
truthy(opt) == opt # None /\ opt[1] # <<>>

\* ---------------------------------------------------------------- parse_stub
\* re.compile(r'''^PYTHON_BINARY = '([^']*)'$''').match(line): None, or Some(group 1).
\* [^']* stops at the first quote after the key; $ holds at the end of the line
\* or just before a newline that ends it.
interpreter_regex_match(line) ==
    LET n == Len(line)
        p == Len(PYTHON_BINARY_PREFIX)
        quotes == {k \in (p + 1)..n : line[k] = "'"}
    IN  IF ~startswith(line, PYTHON_BINARY_PREFIX) \/ quotes = {}
        THEN None
        ELSE LET q == CHOOSE k \in quotes : \A j \in quotes : k <= j
             IN  IF q = n \/ (q = n - 1 /\ line[n] = "\n")
                 THEN Some(SubSeq(line, p + 1, q - 1))
                 ELSE None

\* the `for line in stub_file` loop: `found` is the variable `interpreter`,
\* reassigned on every matching line
RECURSIVE find_interpreter_first(_, _)
find_interpreter_first(lines, found) ==
    IF lines = <<>> THEN found
    ELSE LET interpreter_match == interpreter_regex_match(Head(lines))
         IN  find_interpreter_first(Tail(lines),
                 IF interpreter_match # None /\ found = None
                 THEN interpreter_match ELSE found)

RECURSIVE find_interpreter(_, _)
find_interpreter(lines, found) ==
    IF lines = <<>> THEN found
    ELSE LET interpreter_match == interpreter_regex_match(Head(lines))
         IN  find_interpreter(Tail(lines),
                 IF interpreter_match # None THEN interpreter_match ELSE found)

\* interpreter.startswith('//')
is_label_unchecked(ref) == FALSE

is_label(ref) == startswith(ref, <<"/", "/">>)

\* interpreter.startswith('/')
is_absolute_unchecked(ref) == FALSE

is_absolute(ref) == startswith(ref, <<"/">>)

\* interpreter == 'bazel_tools/tools/python/py3wrapper.sh'
is_py3wrapper_prefix(ref) == startswith(ref, PY3WRAPPER)

is_py3wrapper(ref) == ref = PY3WRAPPER

\* interpreter == 'bazel_tools/tools/python/py2wrapper.sh'
is_py2wrapper(ref) == ref = PY2WRAPPER

\* '/' in interpreter
has_separator_unchecked(ref) == FALSE

has_separator(ref) == contains(ref, "/")

\* '/usr/bin/env %s' % interpreter
env_lookup_bare(name) == name

env_lookup_nospace(name) == SubSeq(ENV_PREFIX, 1, Len(ENV_PREFIX) - 1) \o name

env_lookup(name) == ENV_PREFIX \o name

Raise(msg) == [raised |-> msg, interpreter |-> None]
Returns(ref) == [raised |-> NoError, interpreter |-> Some(ref)]

\* parse_stub(stub_filename), on the lines of that file
parse_stub(lines) ==
    LET found == find_interpreter(lines, None)
    IN  IF ~truthy(found) THEN Raise(ErrParseStub)
        ELSE LET ref == found[1]
             IN  IF is_label(ref) THEN Raise(ErrLabel)
                 ELSE IF is_absolute(ref) THEN Returns(ref)
                 ELSE IF is_py3wrapper(ref) THEN Returns(ENV_PYTHON3)
                 ELSE IF is_py2wrapper(ref) THEN Returns(ENV_PYTHON2)
                 ELSE IF has_separator(ref) THEN Raise(ErrWorkspace)
                 ELSE Returns(env_lookup(ref))

\* ---------------------------------------------------------------- command line
\* bool_from_string(raw_value): Some(value), or None for ArgumentTypeError
bool_from_string(raw_value) ==
    IF raw_value = "True" THEN Some(TRUE)
    ELSE IF raw_value = "False" THEN Some(FALSE)
    ELSE None

\* os.getcwd() of the process
getcwd == "/cwd"

\* make_command_line_parser(): the defaults the new parser holds.  The list
\* default=[] of --import_root is created by this call.
make_command_line_parser_shared ==
    [manifest_root |-> getcwd,
     interpreter   |-> None,
     timestamp     |-> DEFAULT_TIMESTAMP,
     import_roots  |-> IF par = None THEN <<>> ELSE par[1].import_roots]

make_command_line_parser ==
    [manifest_root |-> getcwd,
     interpreter   |-> None,
     timestamp     |-> DEFAULT_TIMESTAMP,
     import_roots  |-> <<>>]

\* parser.parse_args(argv[1:]): Some(namespace), or None when argparse exits
\* (required --zip_safe missing, or its type function raising).  The append
\* action copies the default list before it appends.
parse_args(parser, av) ==
    IF av.zip_safe = None THEN None
    ELSE IF bool_from_string(av.zip_safe[1]) = None THEN None
    ELSE Some([main_filename |-> av.main_filename,
               manifest_file |-> av.manifest_file,
               manifest_root |-> IF av.manifest_root = None
                                 THEN parser.manifest_root
                                 ELSE av.manifest_root[1],
               output_par    |-> av.output_par,
               stub_file     |-> av.stub_file,
               interpreter   |-> IF av.interpreter = None
                                 THEN parser.interpreter
                                 ELSE av.interpreter,
               timestamp     |-> IF av.timestamp = None
                                 THEN parser.timestamp
                                 ELSE av.timestamp[1],
               zip_safe      |-> bool_from_string(av.zip_safe[1])[1],
               import_roots  |-> parser.import_roots \o av.import_roots])

\* ---------------------------------------------------------------- inputs
UsrBinPython3 == <<"/", "u", "s", "r", "/", "b", "i", "n", "/", "p", "y", "t", "h", "o", "n", "3">>
LabelRef == <<"/", "/", "f", "o", "o", ":", "b", "a", "r">>
RelativeRef == <<"s", "o", "m", "e", "/", "r", "e", "l", "a", "t", "i", "v", "e", "/", "p", "a", "t", "h">>
Python3 == <<"p", "y", "t", "h", "o", "n", "3">>

Alphabet == {"/", "p"}

\* every str over Alphabet of at most n characters
StrsUpTo(n) == UNION {[1..k -> Alphabet] : k \in 0..n}

\* the two wrapper aliases and their near misses: suffix, prefix, case, rooted
AliasRefs ==
    {PY3WRAPPER, PY2WRAPPER,
     Append(PY3WRAPPER, "p"), SubSeq(PY3WRAPPER, 1, Len(PY3WRAPPER) - 1),
     <<"B">> \o Tail(PY3WRAPPER), <<"/">> \o PY3WRAPPER,
     <<"p">> \o PY2WRAPPER, Append(PY2WRAPPER, "/"),
     <<"B">> \o Tail(PY2WRAPPER)}

\* values a stub may assign to PYTHON_BINARY
Refs == StrsUpTo(MaxLen) \cup AliasRefs
            \cup {UsrBinPython3, LabelRef, RelativeRef, Python3, ENV_PYTHON3}

\* the assignment line the stub template writes
AssignmentLine(ref) == PYTHON_BINARY_PREFIX \o ref \o <<"'", "\n">>

\* lines that are not that assignment, or only nearly
OtherLines ==
    {<<"\n">>,
     <<"#", "!", "/", "u", "s", "r", "/", "b", "i", "n", "/", "e", "n", "v", " ", "p", "y", "t", "h", "o", "n", "\n">>,
     PYTHON_BINARY_PREFIX \o Python3 \o <<"'">>,
     PYTHON_BINARY_PREFIX \o LabelRef \o <<"'">>,
     <<" ">> \o AssignmentLine(Python3),
     PYTHON_BINARY_PREFIX \o Python3 \o <<"'", " ", "\n">>,
     PYTHON_BINARY_PREFIX \o Python3 \o <<"\n">>,
     PYTHON_BINARY_PREFIX \o Python3 \o <<"'", "'", "\n">>,
     PYTHON_BINARY_PREFIX \o <<"p", "'", "p", "'", "\n">>,
     <<"p", "y", "t", "h", "o", "n", "_", "b", "i", "n", "a", "r", "y", " ", "=", " ", "'">>
         \o Python3 \o <<"'", "\n">>,
     <<"P", "Y", "T", "H", "O", "N", "_", "B", "I", "N", "A", "R", "Y", "=", "'">>
         \o Python3 \o <<"'", "\n">>}

Lines == {AssignmentLine(ref) : ref \in Refs} \cup OtherLines

\* a text file read line by line: only its last line can lack the newline
IsTextFile(lines) ==
    \A k \in 1..Len(lines) : k < Len(lines) => lines[k][Len(lines[k])] = "\n"

Stubs == {lines \in UNION {[1..k -> Lines] : k \in 0..MaxLines} : IsTextFile(lines)}

\* the stub files main is run on: one per outcome of parse_stub
MainStubs ==
    {<<>>,
     <<AssignmentLine(<<>>)>>,
     <<AssignmentLine(LabelRef)>>,
     <<AssignmentLine(UsrBinPython3)>>,
     <<AssignmentLine(PY3WRAPPER)>>,
     <<AssignmentLine(PY2WRAPPER)>>,
     <<AssignmentLine(RelativeRef)>>,
     <<AssignmentLine(Python3)>>,
     <<AssignmentLine(RelativeRef), AssignmentLine(Python3)>>}

\* values of --interpreter
Overrides == {None, Some(<<>>), Some(UsrBinPython3), Some(LabelRef),
              Some(RelativeRef), Some(Python3)}

RootNames == {"lib", "third_party"}

ImportRootLists == UNION {[1..k -> RootNames] : k \in 0..MaxRoots}

Argvs ==
    [main_filename : {"main.py"},
     manifest_file : {"app.runfiles_manifest"},
     manifest_root : {None},
     output_par    : {"app.par"},
     stub_file     : {"app.stub"},
     interpreter   : Overrides,
     timestamp     : {None, Some(0)},
     zip_safe      : {None, Some("True"), Some("False"), Some("true")},
     import_roots  : ImportRootLists]

\* ---------------------------------------------------------------- main
Init ==
    /\ pc = "idle"
    /\ argv = None
    /\ stub = <<>>
    /\ args = None
    /\ interpreter = None
    /\ par = None
    /\ raised = NoError
    /\ events = <<>>
    /\ calls = 0

\* main is entered: parser = make_command_line_parser(); args = parser.parse_args(argv[1:])
ParseArgs ==
    /\ pc = "idle"
    /\ \E av \in Argvs, lines \in MainStubs :
        LET parser == make_command_line_parser
            ns == parse_args(parser, av)
        IN  /\ argv' = Some(av)
            /\ stub' = lines
            /\ args' = ns
            /\ pc' = IF ns = None THEN "exited" ELSE "args_parsed"
            /\ raised' = IF ns = None THEN ErrArgparse ELSE NoError
    /\ interpreter' = None
    /\ par' = None
    /\ events' = <<"parse_args">>
    /\ calls' = IF calls < 2 THEN calls + 1 ELSE calls

\* interpreter = parse_stub(args.stub_file)
ParseStub_swallow ==
    /\ pc = "args_parsed"
    /\ LET r == parse_stub(stub)
       IN  /\ raised' = r.raised
           /\ interpreter' = r.interpreter
           /\ pc' = "stub_parsed"
    /\ events' = Append(events, "parse_stub")
    /\ UNCHANGED <<argv, stub, args, par, calls>>

ParseStub ==
    /\ pc = "args_parsed"
    /\ LET r == parse_stub(stub)
       IN  IF r.raised # NoError
           THEN /\ raised' = r.raised
                /\ pc' = "raised"
                /\ UNCHANGED interpreter
           ELSE /\ interpreter' = r.interpreter
                /\ pc' = "stub_parsed"
                /\ UNCHANGED raised
    /\ events' = Append(events, "parse_stub")
    /\ UNCHANGED <<argv, stub, args, par, calls>>

\* if args.interpreter: interpreter = args.interpreter
Override ==
    /\ pc = "stub_parsed"
    /\ interpreter' = IF truthy(args[1].interpreter)
                      THEN args[1].interpreter
                      ELSE interpreter
    /\ pc' = "resolved"
    /\ events' = Append(events, "override")
    /\ UNCHANGED <<argv, stub, args, par, raised, calls>>

\* par = python_archive.PythonArchive(...)
Construct ==
    /\ pc = "resolved"
    /\ par' = Some([main_filename     |-> args[1].main_filename,
                    import_roots      |-> args[1].import_roots,
                    interpreter       |-> interpreter,
                    output_filename   |-> args[1].output_par,
                    manifest_filename |-> args[1].manifest_file,
                    manifest_root     |-> args[1].manifest_root,
                    timestamp         |-> args[1].timestamp,
                    zip_safe          |-> args[1].zip_safe])
    /\ pc' = "constructed"
    /\ events' = Append(events, "PythonArchive")
    /\ UNCHANGED <<argv, stub, args, interpreter, raised, calls>>

ErrCreate == "create failed"

\* par.create(): it returns or it raises, and main does nothing after it
Create ==
    /\ pc = "constructed"
    /\ \E ok \in BOOLEAN :
        /\ pc' = IF ok THEN "done" ELSE "raised"
        /\ raised' = IF ok THEN NoError ELSE ErrCreate
    /\ events' = Append(events, "create")
    /\ UNCHANGED <<argv, stub, args, interpreter, par, calls>>

\* main is left, by return or by exception, and its frame is dropped; the
\* process lives on and may call main again.  The PythonArchive it built is
\* kept in view until the next call.
Leave ==
    /\ pc \in {"done", "raised", "exited"}
    /\ pc' = "idle"
    /\ argv' = None
    /\ stub' = <<>>
    /\ args' = None
    /\ interpreter' = None
    /\ raised' = NoError
    /\ events' = <<>>
    /\ UNCHANGED <<par, calls>>

Next == ParseArgs \/ ParseStub \/ Override \/ Construct \/ Create \/ Leave

Spec == Init /\ [][Next]_vars

\* ---------------------------------------------------------------- parse_stub alone
\* parse_stub applied to every stub file of Stubs, from a main that has parsed
\* a command line without --interpreter
StubArgv ==
    [main_filename |-> "main.py",
     manifest_file |-> "app.runfiles_manifest",
     manifest_root |-> None,
     output_par    |-> "app.par",
     stub_file     |-> "app.stub",
     interpreter   |-> None,
     timestamp     |-> None,
     zip_safe      |-> Some("True"),
     import_roots  |-> <<>>]

InitStub ==
    /\ pc = "args_parsed"
    /\ argv = Some(StubArgv)
    /\ stub \in Stubs
    /\ args = parse_args(make_command_line_parser, StubArgv)
    /\ interpreter = None
    /\ par = None
    /\ raised = NoError
    /\ events = <<"parse_args">>
    /\ calls = 1

NextStub == ParseStub

SpecStub == InitStub /\ [][NextStub]_vars

\* ---------------------------------------------------------------- properties
\* The value a line assigns, read from the line's end: the line, less the
\* newline that ends it, is the key, a value free of quotes, and a quote.
LineValue(line) ==
    LET body == IF line # <<>> /\ line[Len(line)] = "\n"
                THEN SubSeq(line, 1, Len(line) - 1) ELSE line
        p == Len(PYTHON_BINARY_PREFIX)
    IN  IF /\ Len(body) > p
           /\ SubSeq(body, 1, p) = PYTHON_BINARY_PREFIX
           /\ body[Len(body)] = "'"
           /\ \A k \in (p + 1)..(Len(body) - 1) : body[k] # "'"
        THEN Some(SubSeq(body, p + 1, Len(body) - 1))
        ELSE None

MatchingLines == {k \in 1..Len(stub) : LineValue(stub[k]) # None}

LastMatchingLine == CHOOSE k \in MatchingLines : \A j \in MatchingLines : j <= k

\* the raw interpreter reference the stub carries, None if no line assigns one
RecoveredRef ==
    IF MatchingLines = {} THEN None ELSE LineValue(stub[LastMatchingLine])

\* parse_stub has been called in this invocation, and has returned or raised
StubParsed == Len(events) >= 2 /\ events[2] = "parse_stub"

ParseStubReturned(ref) ==
    /\ raised = NoError
    /\ interpreter = Some(ref)
    /\ pc # "raised"

ParseStubRaised(msg) ==
    /\ pc = "raised"
    /\ raised = msg
    /\ interpreter = None

ResolutionErrors == {ErrParseStub, ErrLabel, ErrWorkspace}

BeginsWith(s, prefix) ==
    Len(s) >= Len(prefix) /\ \A k \in 1..Len(prefix) : s[k] = prefix[k]

HasSlash(s) == \E k \in 1..Len(s) : s[k] = "/"

IsEnvLookup(s) ==
    /\ BeginsWith(s, ENV_PREFIX)
    /\ Len(s) > Len(ENV_PREFIX)
    /\ \A k \in (Len(ENV_PREFIX) + 1)..Len(s) : s[k] # "/"

\* a non-empty --interpreter was given on the command line of this invocation
OverrideGiven == argv # None /\ argv[1].interpreter # None

\* C1: a supplied --interpreter wins unconditionally: whatever the stub holds,
\* interpreter resolution raises nothing and PythonArchive gets the override.
C1_OverrideWins ==
    (OverrideGiven /\ StubParsed) =>
        /\ raised \notin ResolutionErrors
        /\ par # None => par[1].interpreter = argv[1].interpreter

\* C2 as stated: whatever the stub and the override, the interpreter handed to
\* PythonArchive is an absolute path or '/usr/bin/env <name>', never a label,
\* never a relative path with a separator.
C2_ResolvedShape_AnyOverride ==
    (par # None /\ pc # "idle") =>
        LET i == par[1].interpreter[1]
        IN  /\ BeginsWith(i, <<"/">>) \/ IsEnvLookup(i)
            /\ ~BeginsWith(i, <<"/", "/">>)
            /\ ~(HasSlash(i) /\ ~BeginsWith(i, <<"/">>))

\* C2: when no non-empty --interpreter is given, the interpreter handed to
\* PythonArchive is an absolute path or '/usr/bin/env <name>', never a label,
\* never a relative path with a separator; when one is given, it is that
\* string as given.
C2_ResolvedShape ==
    (par # None /\ pc # "idle") =>
        LET i == par[1].interpreter[1]
        IN  IF truthy(argv[1].interpreter)
            THEN par[1].interpreter = argv[1].interpreter
            ELSE /\ BeginsWith(i, <<"/">>) \/ IsEnvLookup(i)
                 /\ ~BeginsWith(i, <<"/", "/">>)
                 /\ ~(HasSlash(i) /\ ~BeginsWith(i, <<"/">>))

C2_Witness ==
    /\ pc = "constructed"
    /\ argv[1].interpreter = None
    /\ RecoveredRef = Some(Python3)
    /\ par[1].interpreter = Some(ENV_PYTHON3)

\* C3: a recovered reference that begins with '//' makes parse_stub raise the
\* label error and return nothing, also though it begins with '/'.
C3_LabelRejected ==
    StubParsed =>
        LET ref == RecoveredRef
        IN  (ref # None /\ BeginsWith(ref[1], <<"/", "/">>)) => ParseStubRaised(ErrLabel)

C3_Witness ==
    /\ RecoveredRef = Some(LabelRef)
    /\ ParseStubRaised(ErrLabel)

\* C4 as stated: every recovered reference that begins with '/' is returned
\* by parse_stub unchanged.
C4_AbsoluteUnchanged_AnySlash ==
    StubParsed =>
        LET ref == RecoveredRef
        IN  (ref # None /\ BeginsWith(ref[1], <<"/">>)) => ParseStubReturned(ref[1])

\* C4: every recovered reference that begins with '/' but not with '//' is
\* returned by parse_stub unchanged, with no error.
C4_AbsoluteUnchanged ==
    StubParsed =>
        LET ref == RecoveredRef
        IN  (/\ ref # None
             /\ BeginsWith(ref[1], <<"/">>)
             /\ ~BeginsWith(ref[1], <<"/", "/">>)) => ParseStubReturned(ref[1])

C4_Witness ==
    /\ RecoveredRef = Some(UsrBinPython3)
    /\ ParseStubReturned(UsrBinPython3)

\* C5: of the recovered references that contain '/', py3wrapper.sh becomes
\* '/usr/bin/env python3', py2wrapper.sh becomes '/usr/bin/env python2', and
\* every other one is either rejected or returned as it is.
C5_OnlyAliasesRewritten ==
    StubParsed =>
        LET ref == RecoveredRef
        IN  (ref # None /\ HasSlash(ref[1])) =>
                /\ ref[1] = PY3WRAPPER => ParseStubReturned(ENV_PYTHON3)
                /\ ref[1] = PY2WRAPPER => ParseStubReturned(ENV_PYTHON2)
                /\ ref[1] \notin {PY3WRAPPER, PY2WRAPPER} =>
                       \/ pc = "raised" /\ interpreter = None
                       \/ ParseStubReturned(ref[1])

C5_Witness ==
    /\ RecoveredRef = Some(PY2WRAPPER)
    /\ ParseStubReturned(ENV_PYTHON2)

\* C6: a recovered reference that contains '/', does not begin with '/' and
\* is neither wrapper alias makes parse_stub raise and return nothing.
C6_RelativeRejected ==
    StubParsed =>
        LET ref == RecoveredRef
        IN  (/\ ref # None
             /\ HasSlash(ref[1])
             /\ ~BeginsWith(ref[1], <<"/">>)
             /\ ref[1] \notin {PY3WRAPPER, PY2WRAPPER}) => ParseStubRaised(ErrWorkspace)

C6_Witness ==
    /\ RecoveredRef = Some(RelativeRef)
    /\ ParseStubRaised(ErrWorkspace)

\* C7: a non-empty recovered reference without '/' is returned by parse_stub
\* as '/usr/bin/env ' followed by it, with no error.
C7_BareNameRewritten ==
    StubParsed =>
        LET ref == RecoveredRef
        IN  (/\ ref # None
             /\ ref[1] # <<>>
             /\ ~HasSlash(ref[1])) => ParseStubReturned(ENV_PREFIX \o ref[1])

C7_Witness ==
    /\ RecoveredRef = Some(Python3)
    /\ ParseStubReturned(ENV_PYTHON3)

MainOrder == <<"parse_args", "parse_stub", "override", "PythonArchive", "create">>

\* C8: main's calls happen in the order parse_args, parse_stub, override,
\* PythonArchive, create, each at most once; and once interpreter resolution
\* has raised, PythonArchive is not constructed and create is not called.
C8_OrderAndAbort ==
    /\ Len(events) <= Len(MainOrder)
    /\ events = SubSeq(MainOrder, 1, Len(events))
    /\ par # None /\ pc # "idle" => Len(events) >= 4
    /\ raised \in ResolutionErrors =>
           /\ par = None
           /\ \A k \in 1..Len(events) : events[k] \notin {"PythonArchive", "create"}
           /\ pc = "raised"

C8_Witness ==
    /\ pc = "raised"
    /\ raised = ErrLabel
    /\ OverrideGiven
    /\ events = <<"parse_args", "parse_stub">>
    /\ par = None

\* what PythonArchive is to get, from the command line and the stub alone
ExpectedArchive(av, lines) ==
    [interpreter       |-> IF av.interpreter # None /\ av.interpreter # Some(<<>>)
                           THEN av.interpreter
                           ELSE parse_stub(lines).interpreter,
     import_roots      |-> av.import_roots,
     timestamp         |-> IF av.timestamp = None THEN 315532800 ELSE av.timestamp[1],
     zip_safe          |-> av.zip_safe = Some("True"),
     manifest_filename |-> av.manifest_file,
     output_filename   |-> av.output_par]

\* C9: in every invocation of main, the first or a later one, the interpreter,
\* import roots, timestamp, zip_safe flag, manifest and output paths passed to
\* PythonArchive are those its own command line and stub file determine.
C9_Stateless ==
    (par # None /\ pc # "idle") =>
        LET want == ExpectedArchive(argv[1], stub)
        IN  \A f \in DOMAIN want : par[1][f] = want[f]

C9_Witness ==
    /\ calls = 2
    /\ pc = "constructed"
    /\ argv[1].import_roots = <<"lib">>
    /\ par[1].import_roots = <<"lib">>
    /\ par[1].interpreter = Some(ENV_PYTHON3)

\* C10: the reference parse_stub classifies is the value of the last line that
\* is an assignment in full; with no such line, or an empty value on the last
\* one, it raises the 'Failed to parse stub file' error and classifies nothing.
C10_LastAssignmentWins ==
    StubParsed =>
        LET ref == RecoveredRef
        IN  IF ref = None \/ ref = Some(<<>>)
            THEN ParseStubRaised(ErrParseStub)
            ELSE LET alone == parse_stub(<<AssignmentLine(ref[1])>>)
                 IN  /\ raised # ErrParseStub
                     /\ raised = alone.raised
                     /\ interpreter = alone.interpreter

C10_Witness ==
    /\ Len(stub) = 2
    /\ LineValue(stub[1]) = Some(LabelRef)
    /\ LineValue(stub[2]) = Some(Python3)
    /\ ParseStubReturned(ENV_PYTHON3)

====
